---- MODULE Spec2Model ----
(***************************************************************************)
(* Household expense tracker (src/app.py): the paychecks, items and        *)
(* archive sheets, the income-proportional splitter and the settlement     *)
(* operations (mark paid, approve, delete).                                *)
(*                                                                         *)
(* Money is kept in integer cents.  An income mean is kept as a multiple   *)
(* of 1/MeanScale, so that the mean of one, two or three pay cells is an   *)
(* integer; a share is a ratio of means, so the scale cancels.             *)
(*                                                                         *)
(* paychecks, items, archive: the data rows of the three sheets.           *)
(* uuids: the number of ids handed out.  ret: the log of the last call.    *)
(* sent: the notifications of the last call.  cache: the entries of        *)
(* st.cache_data.  pending: the calls that have loaded a sheet and not yet *)
(* written.  smtp: whether the mail server answers.                        *)
(***************************************************************************)
EXTENDS Integers, Sequences, FiniteSets, TLC

VARIABLES paychecks, items, archive, uuids, ret, sent, cache, pending, smtp

vars == <<paychecks, items, archive, uuids, ret, sent, cache, pending, smtp>>

(***************************************************************************)
(* Bounds of the model.                                                    *)
(***************************************************************************)
\* Longest expense list handed to one batch call.
MaxBatch == 2
\* Number of uuids the ledger specification lets the program draw.
MaxUuid == 3
\* Clock readings (datetime.now) an operation of the ledger may observe.
MaxTime == 1
\* Rows the archive sheet may hold (mark paid is cut off beyond it).
MaxArchive == 2

(***************************************************************************)
(* Configuration and cell encodings.                                       *)
(***************************************************************************)
\* st.secrets["users"]: the roster, in key order.
Roster == <<"a", "b", "u">>

RosterSet == {Roster[i] : i \in DOMAIN Roster}

\* Usernames that may own a row of the paychecks sheet; "x" is a user who
\* is no longer (or never was) in the roster.
Holders == <<"a", "b", "u", "x">>

\* An empty time cell ("" in paid_at / approved_at).
NoTime == 0
\* An expense without a date (exp.get("date") is None).
NoDate == 0
\* Scale of an income mean: the mean of n cells (n = 1, 2, 3) is
\* sum * (MeanScale / n) / MeanScale.
MeanScale == 6

\* A pay cell is <<>> when it holds nothing numeric and <<n>> when it holds n.
Blank == <<>>

Num(n) == <<n>>

(***************************************************************************)
(* Income Calculator.                                                      *)
(***************************************************************************)
RECURSIVE SumSeq(_)
SumSeq(s) == IF s = <<>> THEN 0 ELSE Head(s) + SumSeq(Tail(s))

\* pd.to_numeric(errors="coerce") on the three pay cells, NaN dropped.
NumericPays(row) ==
    LET cells == <<row.pay1, row.pay2, row.pay3>>
        present == SelectSeq(cells, LAMBDA c : c # Blank)
    IN  [i \in DOMAIN present |-> present[i][1]]

\* df[["pay1","pay2","pay3"]].mean(axis=1) is NaN when no cell is numeric.
HasAverage(row) == NumericPays(row) # <<>>

\* The row mean, in units of 1/MeanScale.
RowMean(row) ==
    LET pays == NumericPays(row)
    IN  SumSeq(pays) * (MeanScale \div Len(pays))

\* A faulty variant, for sensitivity analysis: rows without a numeric pay cell are kept, with a mean of zero.
compute_income_means_no_dropna(sheet) ==
    LET names == {sheet[i].username : i \in DOMAIN sheet}
        last(n) == CHOOSE i \in DOMAIN sheet :
                      /\ sheet[i].username = n
                      /\ \A j \in DOMAIN sheet : sheet[j].username = n => j <= i
    IN  [n \in names |->
            IF HasAverage(sheet[last(n)]) THEN RowMean(sheet[last(n)]) ELSE 0]

\* dict(zip(username, average)) after dropna: the last row of a username wins.
compute_income_means(sheet) ==
    LET kept == SelectSeq(sheet, HasAverage)
        names == {kept[i].username : i \in DOMAIN kept}
        last(n) == CHOOSE i \in DOMAIN kept :
                      /\ kept[i].username = n
                      /\ \A j \in DOMAIN kept : kept[j].username = n => j <= i
    IN  [n \in names |-> RowMean(kept[last(n)])]

(***************************************************************************)
(* Expense Splitter.                                                       *)
(***************************************************************************)
\* str.strip() on the descriptions the model uses.
Strip(s) ==
    CASE s = " " -> ""
      [] s = "milk " -> "milk"
      [] OTHER -> s

\* A faulty variant, for sensitivity analysis: the amount is not looked at.
IsValidExpenseAnyAmount(exp) == Strip(exp.description) # ""

\* amount > 0 and desc (lines 855-859).
IsValidExpense(exp) == exp.amount > 0 /\ Strip(exp.description) # ""

ValidExpenses(expenses) == SelectSeq(expenses, IsValidExpense)

\* A faulty variant, for sensitivity analysis: the roster filter dropped, every user with income data takes part.
ParticipantsAnyUser(share_type, uploader, means) ==
    LET withIncome == SelectSeq(Holders, LAMBDA u : u \in DOMAIN means)
    IN  IF share_type = "relative_others"
        THEN SelectSeq(withIncome, LAMBDA u : u # uploader)
        ELSE withIncome

\* A faulty variant, for sensitivity analysis: relative_others keeps the uploader.
ParticipantsAlwaysUploader(share_type, uploader, means) ==
    SelectSeq(Roster, LAMBDA u : u \in DOMAIN means)

\* A faulty variant, for sensitivity analysis: relative_all treated like relative_others.
ParticipantsNeverUploader(share_type, uploader, means) ==
    SelectSeq(Roster, LAMBDA u : u \in DOMAIN means /\ u # uploader)

\* participants (lines 871-878): roster users with income data, in roster
\* order; relative_others drops the uploader.
Participants(share_type, uploader, means) ==
    LET withIncome == SelectSeq(Roster, LAMBDA u : u \in DOMAIN means)
    IN  IF share_type = "relative_others"
        THEN SelectSeq(withIncome, LAMBDA u : u # uploader)
        ELSE withIncome

\* denom = sum(income_means[u] for u in participants), in 1/MeanScale.
Denom(participants, means) ==
    SumSeq([i \in DOMAIN participants |-> means[participants[i]]])

\* A faulty variant, for sensitivity analysis: the guard that skips the uploader's own row is gone.
OwesSelfNever(debtor, uploader) == FALSE

\* if debtor == uploader: continue (lines 905-907).
OwesSelf(debtor, uploader) == debtor = uploader

\* round(total * income / denom, 2) in cents (lines 909-910): the quotient
\* rounded to the nearest cent.  A quotient exactly half way between two
\* cents is rounded by its binary value: when the total is a multiple of a
\* quarter, the means are whole numbers and the quotient is a multiple of an
\* eighth, the float quotient is exact and round() takes the even cent;
\* otherwise the float lies just above or just below and either neighbour
\* may result.
Share(total, income, denom) ==
    LET num == total * income
        q == num \div denom
        r == num % denom
        exact == /\ total % 25 = 0
                 /\ income % MeanScale = 0
                 /\ denom % MeanScale = 0
                 /\ (2 * q + 1) % 25 = 0
    IN  IF 2 * r < denom THEN {q}
        ELSE IF 2 * r > denom THEN {q + 1}
        ELSE IF exact THEN {IF q % 2 = 0 THEN q ELSE q + 1}
        ELSE {q, q + 1}

\* One row of the items sheet (lines 913-928).
DebtRow(ctx, exp, pid, rid, debtor, share, receipt) ==
    [id |-> rid,
     purchase_id |-> pid,
     timestamp |-> ctx.now,
     purchase_date |-> IF exp.date # NoDate THEN exp.date ELSE ctx.now,
     uploader |-> ctx.uploader,
     debtor |-> debtor,
     description |-> Strip(exp.description),
     amount_total |-> exp.amount,
     amount_owed |-> share,
     share_type |-> ctx.share_type,
     receipt_url |-> receipt,
     paid |-> FALSE,
     paid_at |-> NoTime,
     paid_by |-> ""]

\* A faulty variant, for sensitivity analysis: the receipt goes to the first row of the expense only.
RECURSIVE RowsForExpenseReceiptOnce(_, _, _, _, _, _)
RowsForExpenseReceiptOnce(ctx, exp, pid, receipt, debtors, rid) ==
    IF debtors = <<>> THEN {<<>>}
    ELSE IF OwesSelf(Head(debtors), ctx.uploader)
    THEN RowsForExpenseReceiptOnce(ctx, exp, pid, receipt, Tail(debtors), rid)
    ELSE {<<DebtRow(ctx, exp, pid, rid, Head(debtors), s, receipt)>> \o rest :
            s \in Share(exp.amount, ctx.means[Head(debtors)], ctx.denom),
            rest \in RowsForExpenseReceiptOnce(ctx, exp, pid, "", Tail(debtors), rid + 1)}

\* A faulty variant, for sensitivity analysis: the row id is drawn once per expense, outside the inner loop.
RECURSIVE RowsForExpenseOneId(_, _, _, _, _, _)
RowsForExpenseOneId(ctx, exp, pid, receipt, debtors, rid) ==
    IF debtors = <<>> THEN {<<>>}
    ELSE IF OwesSelf(Head(debtors), ctx.uploader)
    THEN RowsForExpenseOneId(ctx, exp, pid, receipt, Tail(debtors), rid)
    ELSE {<<DebtRow(ctx, exp, pid, rid, Head(debtors), s, receipt)>> \o rest :
            s \in Share(exp.amount, ctx.means[Head(debtors)], ctx.denom),
            rest \in RowsForExpenseOneId(ctx, exp, pid, receipt, Tail(debtors), rid)}

\* The inner loop over participants (lines 904-929): every possible list of
\* rows for one expense, the row ids drawn as rid, rid + 1, ...
RECURSIVE RowsForExpense(_, _, _, _, _, _)
RowsForExpense(ctx, exp, pid, receipt, debtors, rid) ==
    IF debtors = <<>> THEN {<<>>}
    ELSE IF OwesSelf(Head(debtors), ctx.uploader)
    THEN RowsForExpense(ctx, exp, pid, receipt, Tail(debtors), rid)
    ELSE {<<DebtRow(ctx, exp, pid, rid, Head(debtors), s, receipt)>> \o rest :
            s \in Share(exp.amount, ctx.means[Head(debtors)], ctx.denom),
            rest \in RowsForExpense(ctx, exp, pid, receipt, Tail(debtors), rid + 1)}

\* The outer loop over valid_expenses (lines 893-929): each expense draws a
\* purchase id and then one id per row; only the first expense keeps its file.
RECURSIVE AllRows(_, _, _, _)
AllRows(ctx, valid, idx, uuid) ==
    IF idx > Len(valid) THEN {<<>>}
    ELSE LET exp == valid[idx]
             pid == uuid + 1
             receipt == IF idx = 1 /\ exp.file THEN ctx.upload ELSE ""
         IN  UNION {{first \o rest : rest \in AllRows(ctx, valid, idx + 1, pid + Len(first))} :
                      first \in RowsForExpense(ctx, exp, pid, receipt, ctx.participants, pid + 1)}

Raised(kind) == [err |-> kind, value |-> 0, rows |-> <<>>, denom |-> 0]

Returned(n, rows, denom) == [err |-> "", value |-> n, rows |-> rows, denom |-> denom]

\* A faulty variant, for sensitivity analysis: the final "no rows were created" check is gone.
FinishWithoutRowCheck(valid, rows, denom) == Returned(Len(valid), rows, denom)

\* Lines 931-944: no row at all is an error, otherwise all rows are written
\* in one append and the number of valid expenses is returned.
Finish(valid, rows, denom) ==
    IF rows = <<>> THEN Raised("NoRows") ELSE Returned(Len(valid), rows, denom)

\* A faulty variant, for sensitivity analysis: "self" is no longer answered before everything else.
IsSelfNever(share_type) == FALSE

\* share_type == "self" (line 849).
IsSelf(share_type) == share_type = "self"

\* A faulty variant, for sensitivity analysis: the expenses are validated one by one inside the loop and the
\* rows of each expense are appended as soon as they are built, so an invalid
\* expense raises after the rows of the expenses before it were written.
BatchOutcomesEager(uploader, expenses, share_type, sheet, uuid, now, upload) ==
    LET means == compute_income_means(sheet)
        participants == Participants(share_type, uploader, means)
        denom == Denom(participants, means)
        bad == {i \in DOMAIN expenses : ~IsValidExpense(expenses[i])}
        firstBad == IF bad = {} THEN Len(expenses) + 1
                    ELSE CHOOSE i \in bad : \A j \in bad : i <= j
        prefix == SubSeq(expenses, 1, firstBad - 1)
        ctx == [uploader |-> uploader, share_type |-> share_type,
                means |-> means, denom |-> denom, now |-> now,
                upload |-> upload, participants |-> participants]
    IN  IF IsSelf(share_type) THEN {Returned(0, <<>>, 0)}
        ELSE IF \/ DOMAIN means = {}
                \/ share_type \notin {"relative_all", "relative_others"}
                \/ participants = <<>>
        THEN {Raised("Rejected")}
        ELSE IF denom <= 0 THEN {Raised("InvalidIncome")}
        ELSE {IF bad # {}
              THEN [err |-> "NoValidExpenses", value |-> 0, rows |-> rows, denom |-> denom]
              ELSE Finish(prefix, rows, denom) : rows \in AllRows(ctx, prefix, 1, uuid)}

\* batch_add_expenses_and_create_debts (lines 821-944): every outcome the
\* call can have; rows are the rows appended to the items sheet.
BatchOutcomes(uploader, expenses, share_type, sheet, uuid, now, upload) ==
    IF IsSelf(share_type) THEN {Returned(0, <<>>, 0)}
    ELSE LET valid == ValidExpenses(expenses) IN
    IF valid = <<>> THEN {Raised("NoValidExpenses")}
    ELSE LET means == compute_income_means(sheet) IN
    IF DOMAIN means = {} THEN {Raised("NoIncomeData")}
    ELSE IF share_type \notin {"relative_all", "relative_others"}
    THEN {Raised("UnknownShareType")}
    ELSE LET participants == Participants(share_type, uploader, means) IN
    IF participants = <<>> THEN {Raised("NoParticipants")}
    ELSE LET denom == Denom(participants, means) IN
    IF denom <= 0 THEN {Raised("InvalidIncome")}
    ELSE LET ctx == [uploader |-> uploader, share_type |-> share_type,
                     means |-> means, denom |-> denom, now |-> now,
                     upload |-> upload, participants |-> participants]
         IN  {Finish(valid, rows, denom) : rows \in AllRows(ctx, valid, 1, uuid)}


(***************************************************************************)
(* Ledger operations.                                                      *)
(***************************************************************************)
\* df.index[df[col] == v][0]: the first row whose column holds v (0 if none).
FirstIndex(sheet, col, v) ==
    IF \E i \in DOMAIN sheet : sheet[i][col] = v
    THEN CHOOSE i \in DOMAIN sheet :
            /\ sheet[i][col] = v
            /\ \A j \in DOMAIN sheet : sheet[j][col] = v => i <= j
    ELSE 0

\* A faulty variant, for sensitivity analysis: a row is appended whether or not the username has one.
upsert_paychecks_append(sheet, df, username, p1, p2, p3) ==
    Append(sheet, [username |-> username, pay1 |-> Num(p1), pay2 |-> Num(p2),
                   pay3 |-> Num(p3)])

\* upsert_paychecks (lines 642-657): df is what load_paychecks_df returned;
\* the sheet row of the user's first row in df is overwritten in place, or a
\* row is appended for a username df does not hold.
upsert_paychecks(sheet, df, username, p1, p2, p3) ==
    LET row == [username |-> username, pay1 |-> Num(p1), pay2 |-> Num(p2),
                pay3 |-> Num(p3)]
        idx == FirstIndex(df, "username", username)
    IN  IF idx # 0 THEN [sheet EXCEPT ![idx] = row] ELSE Append(sheet, row)

\* A faulty variant, for sensitivity analysis: the current user is always compared with the debtor column.
RECURSIVE SelectedRowsByDebtor(_, _, _, _)
SelectedRowsByDebtor(sheet, owner, current_user, ids) ==
    IF ids = <<>> THEN <<>>
    ELSE LET idx == FirstIndex(sheet, "id", Head(ids))
             rest == SelectedRowsByDebtor(sheet, owner, current_user, Tail(ids))
         IN  IF idx = 0 THEN rest
             ELSE IF sheet[idx].debtor # current_user THEN rest
             ELSE <<idx>> \o rest

\* A faulty variant, for sensitivity analysis: the owner of the row is not compared with the current user.
RECURSIVE SelectedRowsAnyOwner(_, _, _, _)
SelectedRowsAnyOwner(sheet, owner, current_user, ids) ==
    IF ids = <<>> THEN <<>>
    ELSE LET idx == FirstIndex(sheet, "id", Head(ids))
             rest == SelectedRowsAnyOwner(sheet, owner, current_user, Tail(ids))
         IN  IF idx = 0 THEN rest ELSE <<idx>> \o rest

\* The loop of mark_debts_as_paid (lines 1056-1064) and of approve_payments
\* (lines 1138-1147): for each requested id, in order, the first row with
\* that id, kept when its owner column names the current user.
RECURSIVE SelectedRows(_, _, _, _)
SelectedRows(sheet, owner, current_user, ids) ==
    IF ids = <<>> THEN <<>>
    ELSE LET idx == FirstIndex(sheet, "id", Head(ids))
             rest == SelectedRows(sheet, owner, current_user, Tail(ids))
         IN  IF idx = 0 THEN rest
             ELSE IF sheet[idx][owner] # current_user THEN rest
             ELSE <<idx>> \o rest

IndexSet(s) == {s[i] : i \in DOMAIN s}

\* A sheet row of the items sheet with no cell filled, as get_all_records
\* (line 689) returns it: every cell is the empty string.
BlankItem ==
    [id |-> 0, purchase_id |-> 0, timestamp |-> NoTime, purchase_date |-> NoDate,
     uploader |-> "", debtor |-> "", description |-> "", amount_total |-> 0,
     amount_owed |-> 0, share_type |-> "", receipt_url |-> "", paid |-> FALSE,
     paid_at |-> NoTime, paid_by |-> ""]

\* The sheet as far down as the lowest cell a batch_update of the rows sel
\* writes (lines 1069-1080): a row number past the last data row addresses a
\* blank row of the grid.
Grid(sheet, sel) ==
    LET last == IF \A k \in DOMAIN sel : sel[k] <= Len(sheet) THEN Len(sheet)
                ELSE CHOOSE n \in IndexSet(sel) : \A m \in IndexSet(sel) : m <= n
    IN  [i \in 1 .. last |-> IF i <= Len(sheet) THEN sheet[i] ELSE BlankItem]

\* A faulty variant, for sensitivity analysis: the paid cell is flipped instead of set.
MarkItemsToggle(sheet, sel, current_user, now) ==
    [i \in DOMAIN Grid(sheet, sel) |->
        IF i \in IndexSet(sel)
        THEN [Grid(sheet, sel)[i] EXCEPT !.paid = ~Grid(sheet, sel)[i].paid, !.paid_at = now,
                              !.paid_by = current_user]
        ELSE Grid(sheet, sel)[i]]

\* items_ws.batch_update (lines 1069-1080, 1102-1103): paid, paid_at and
\* paid_by of every selected sheet row, addressed by row number.
MarkItems(sheet, sel, current_user, now) ==
    [i \in DOMAIN Grid(sheet, sel) |->
        IF i \in IndexSet(sel)
        THEN [Grid(sheet, sel)[i] EXCEPT !.paid = TRUE, !.paid_at = now,
                                        !.paid_by = current_user]
        ELSE Grid(sheet, sel)[i]]

\* A faulty variant, for sensitivity analysis: the owed share is taken from the total-amount column.
ArchiveRowWrongAmount(row, current_user, now) ==
    [id |-> row.id, purchase_id |-> row.purchase_id, timestamp |-> row.timestamp,
     purchase_date |-> row.purchase_date, uploader |-> row.uploader,
     debtor |-> row.debtor, description |-> row.description,
     amount_total |-> row.amount_total, amount_owed |-> row.amount_total,
     share_type |-> row.share_type, receipt_url |-> row.receipt_url,
     paid |-> TRUE, paid_at |-> now, paid_by |-> current_user,
     approved |-> FALSE, approved_at |-> NoTime, approved_by |-> ""]

\* The archive row prepared for one selected item (lines 1083-1092).
ArchiveRow(row, current_user, now) ==
    [id |-> row.id, purchase_id |-> row.purchase_id, timestamp |-> row.timestamp,
     purchase_date |-> row.purchase_date, uploader |-> row.uploader,
     debtor |-> row.debtor, description |-> row.description,
     amount_total |-> row.amount_total, amount_owed |-> row.amount_owed,
     share_type |-> row.share_type, receipt_url |-> row.receipt_url,
     paid |-> TRUE, paid_at |-> now, paid_by |-> current_user,
     approved |-> FALSE, approved_at |-> NoTime, approved_by |-> ""]

\* archive_rows, one per selected id, in request order (lines 1091-1092).
ArchiveRows(sheet, sel, current_user, now) ==
    [k \in DOMAIN sel |-> ArchiveRow(sheet[sel[k]], current_user, now)]

\* notify_payment_marked, one per selected id (lines 1095-1099, 1113-1119).
PaidNotes(sheet, sel, current_user) ==
    [k \in DOMAIN sel |->
        [kind |-> "payment_marked", by |-> current_user,
         to |-> {sheet[sel[k]].uploader},
         amount |-> sheet[sel[k]].amount_owed]]

\* A faulty variant, for sensitivity analysis: approved_by is given the debtor of the record.
ApproveArchiveByDebtor(sheet, sel, current_user, now) ==
    [i \in DOMAIN sheet |->
        IF i \in IndexSet(sel)
        THEN [sheet[i] EXCEPT !.approved = TRUE, !.approved_at = now,
                              !.approved_by = sheet[i].debtor]
        ELSE sheet[i]]

\* archive_ws.batch_update (lines 1152-1163, 1173-1174).
ApproveArchive(sheet, sel, current_user, now) ==
    [i \in DOMAIN sheet |->
        IF i \in IndexSet(sel)
        THEN [sheet[i] EXCEPT !.approved = TRUE, !.approved_at = now,
                              !.approved_by = current_user]
        ELSE sheet[i]]

\* notify_payment_approved, one per selected id (lines 1166-1170, 1180-1186).
ApprovedNotes(sheet, sel, current_user) ==
    [k \in DOMAIN sel |->
        [kind |-> "payment_approved", by |-> current_user,
         to |-> {sheet[sel[k]].debtor},
         amount |-> sheet[sel[k]].amount_owed]]

\* A faulty variant, for sensitivity analysis: rows already paid are left out of the deletion.
MatchingRowsUnpaid(sheet, current_user, purchase_ids) ==
    SelectSeq([i \in DOMAIN sheet |-> i],
              LAMBDA i : /\ sheet[i].purchase_id \in IndexSet(purchase_ids)
                         /\ sheet[i].uploader = current_user
                         /\ ~sheet[i].paid)

\* matching_rows (lines 971-978): the rows of the requested purchases that
\* the current user uploaded, as row indices in sheet order.
MatchingRows(sheet, current_user, purchase_ids) ==
    SelectSeq([i \in DOMAIN sheet |-> i],
              LAMBDA i : /\ sheet[i].purchase_id \in IndexSet(purchase_ids)
                         /\ sheet[i].uploader = current_user)

\* sorted(..., reverse=True) of the sheet row numbers idx + 2 (line 993);
\* data row i of the model is sheet row i + 1.
RECURSIVE SortedReverse(_)
SortedReverse(S) ==
    IF S = {} THEN <<>>
    ELSE LET m == CHOOSE x \in S : \A y \in S : y <= x
         IN  <<m>> \o SortedReverse(S \ {m})

\* A faulty variant, for sensitivity analysis: the row numbers are left in sheet order, lowest first.
rows_to_delete_ascending(matching) == [k \in DOMAIN matching |-> matching[k] + 1]

rows_to_delete(matching) == SortedReverse({i + 1 : i \in IndexSet(matching)})

\* The inner while loop (lines 1005-1007): the last index of the run of
\* consecutive row numbers that starts at i.
RECURSIVE RunEnd(_, _)
RunEnd(rows, i) ==
    IF i + 1 <= Len(rows) /\ rows[i + 1] = rows[i] - 1
    THEN RunEnd(rows, i + 1)
    ELSE i

\* The outer while loop (lines 1000-1021): one deleteDimension range per run.
RECURSIVE delete_requests(_, _)
delete_requests(rows, i) ==
    IF i > Len(rows) THEN <<>>
    ELSE LET j == RunEnd(rows, i)
         IN  <<[startIndex |-> rows[j] - 1, endIndex |-> rows[i]]>>
             \o delete_requests(rows, j + 1)

\* One deleteDimension request on the items sheet: the 0-indexed sheet rows
\* startIndex .. endIndex - 1 go, the header being index 0 and data row i
\* index i.
DeleteDimension(sheet, req) ==
    SubSeq(sheet, 1, req.startIndex - 1) \o SubSeq(sheet, req.endIndex, Len(sheet))

\* spreadsheet.batch_update (line 1025): the requests applied in order.
RECURSIVE ApplyRequests(_, _)
ApplyRequests(sheet, reqs) ==
    IF reqs = <<>> THEN sheet
    ELSE ApplyRequests(DeleteDimension(sheet, Head(reqs)), Tail(reqs))

\* pid_rows[...].unique() in order of first appearance (lines 983-990).
RECURSIVE UniqueInOrder(_)
UniqueInOrder(s) ==
    IF s = <<>> THEN <<>>
    ELSE LET init == UniqueInOrder(SubSeq(s, 1, Len(s) - 1))
             x == s[Len(s)]
         IN  IF x \in IndexSet(init) THEN init ELSE Append(init, x)

\* notify_expense_deleted, one per deleted purchase (lines 983-990, 1031-1033).
DeletedNotes(sheet, matching, current_user) ==
    LET pids == UniqueInOrder([k \in DOMAIN matching |-> sheet[matching[k]].purchase_id])
    IN  [k \in DOMAIN pids |->
            LET mine == SelectSeq(matching, LAMBDA i : sheet[i].purchase_id = pids[k])
            IN  [kind |-> "expense_deleted", by |-> current_user,
                 to |-> {sheet[i].debtor : i \in IndexSet(mine)},
                 amount |-> sheet[mine[1]].amount_total]]


(***************************************************************************)
(* State and actions.                                                      *)
(***************************************************************************)
Users == RosterSet

Times == 1 .. MaxTime

\* st.cache_data (lines 622, 660, 686, 712): one entry per cached loader,
\* <<>> when nothing is stored and <<value>> otherwise.  The entry of
\* _cached_compute_income_means holds the paychecks rows its means were
\* computed from.
EmptyCache == [paychecks |-> <<>>, means |-> <<>>, items |-> <<>>, archive |-> <<>>]

\* A call of a cached loader (lines 622-627, 686-691, 712-717): the stored
\* value on a hit, the sheet as it is now on a miss.  Reading the sheet and
\* storing the value are one step, and an entry past its ttl of 30 seconds
\* is a miss like any other.
Fetch(entry, sheet) == IF entry # <<>> THEN entry[1] ELSE sheet

\* The cache after the loader of sheet key returned value.
Stored(key, value) == [cache EXCEPT ![key] = <<value>>]

\* A faulty variant, for sensitivity analysis: the entries of the cache are kept.
invalidate_data_cache_kept(loaded) == loaded

\* invalidate_data_cache (lines 617-619): st.cache_data.clear() on the cache
\* as the loaders of the call left it.
invalidate_data_cache(loaded) == EmptyCache

\* compute_income_means (lines 660-683), as the paychecks rows the means are
\* computed from: the rows of the stored means on a hit, otherwise what
\* _cached_load_paychecks returns.
MeansSource ==
    IF cache.means # <<>> THEN cache.means[1] ELSE Fetch(cache.paychecks, paychecks)

\* The cache after compute_income_means returned.
MeansStored ==
    IF cache.means # <<>> THEN cache
    ELSE [cache EXCEPT !.means = <<MeansSource>>, !.paychecks = <<MeansSource>>]

\* A faulty variant, for sensitivity analysis: a send that fails raises, which ends the loop over the
\* notifications and the call.
NotifyRaising(notes) ==
    IF smtp \/ notes = <<>>
    THEN [err |-> "", sent |-> [k \in DOMAIN notes |-> notes[k] @@ [delivered |-> TRUE]]]
    ELSE [err |-> "SMTPException", sent |-> <<notes[1] @@ [delivered |-> FALSE]>>]

\* The loop over the notifications of a call (lines 1031-1033, 1113-1119,
\* 1180-1186): send_email_notification (lines 348-387) attempts each send
\* inside a try whose except clause prints the error, so every notification
\* is attempted and none raises; a message is delivered when the mail server
\* answers.
Notify(notes) ==
    [err |-> "", sent |-> [k \in DOMAIN notes |-> notes[k] @@ [delivered |-> smtp]]]

\* A call of the splitter; rows are appended by the single append_rows of
\* line 939, which an error exit never reaches.  The means are read after
\* the "self" exit and the validation (lines 849-864), and the cache is
\* cleared after the append (line 942).
Add(op, uploader, expenses, share_type, now, upload) ==
    \E out \in BatchOutcomes(uploader, expenses, share_type, MeansSource, uuids, now, upload) :
        /\ items' = items \o out.rows
        /\ uuids' = IF out.rows = <<>> THEN uuids ELSE out.rows[Len(out.rows)].id
        /\ ret' = [op |-> op, user |-> uploader, expenses |-> expenses,
                   share_type |-> share_type, err |-> out.err, value |-> out.value,
                   rows |-> out.rows, denom |-> out.denom, now |-> now,
                   upload |-> upload]
        /\ sent' = <<>>
        /\ cache' = IF out.rows # <<>> THEN invalidate_data_cache(MeansStored)
                    ELSE IF IsSelf(share_type) \/ ValidExpenses(expenses) = <<>> THEN cache
                    ELSE MeansStored
        /\ UNCHANGED <<paychecks, archive, pending, smtp>>

Expense(description, amount, date, file) ==
    [description |-> description, amount |-> amount, date |-> date, file |-> file]

\* add_expense_and_create_debts (lines 800-818): the batch call with one expense.
add_expense_and_create_debts(uploader, description, total_amount, share_type, purchase_date, uploaded_file, now, upload) ==
    Add("add", uploader, <<Expense(description, total_amount, purchase_date, uploaded_file)>>,
        share_type, now, upload)

\* A return before anything is read (lines 953-954, 1038-1039, 1123-1124)
\* or before anything is written, with the cache as the loaders left it.
ReturnEarly(call, value, loaded) ==
    /\ ret' = call @@ [err |-> "", value |-> value]
    /\ sent' = <<>>
    /\ cache' = loaded
    /\ UNCHANGED <<paychecks, items, archive, uuids, pending, smtp>>

\* A faulty variant, for sensitivity analysis: an id whose record the archive already holds is not
\* archived again.
mark_writes_once(call, current_user, debt_ids, now, items_df) ==
    LET sel == SelectedRows(items_df, "debtor", current_user, debt_ids)
        fresh == SelectSeq(sel, LAMBDA i :
                     \A k \in DOMAIN archive : archive[k].id # items_df[i].id)
        notified == Notify(PaidNotes(items_df, sel, current_user))
    IN  /\ items' = MarkItems(items, sel, current_user, now)
        /\ archive' = archive \o ArchiveRows(items_df, fresh, current_user, now)
        /\ cache' = invalidate_data_cache(Stored("items", items_df))
        /\ sent' = notified.sent
        /\ ret' = call @@ [err |-> notified.err, value |-> 0]
        /\ UNCHANGED <<paychecks, uuids, smtp>>

\* mark_debts_as_paid from the loop on (lines 1056-1119): items_df is what
\* load_items_df returned and now the time read at line 1049.  The cells are
\* written by sheet row number, the archive rows are copies of the rows of
\* items_df, the cache is cleared and the uploaders are notified.
mark_writes(call, current_user, debt_ids, now, items_df) ==
    LET sel == SelectedRows(items_df, "debtor", current_user, debt_ids)
        notified == Notify(PaidNotes(items_df, sel, current_user))
    IN  /\ items' = MarkItems(items, sel, current_user, now)
        /\ archive' = archive \o ArchiveRows(items_df, sel, current_user, now)
        /\ cache' = invalidate_data_cache(Stored("items", items_df))
        /\ sent' = notified.sent
        /\ ret' = call @@ [err |-> notified.err, value |-> 0]
        /\ UNCHANGED <<paychecks, uuids, smtp>>

\* mark_debts_as_paid (lines 1037-1119), run without interruption; call is
\* what the log keeps of the call, next to its outcome.
mark_debts_as_paid(call, current_user, debt_ids, now) ==
    LET items_df == Fetch(cache.items, items)
    IN  IF debt_ids = <<>> THEN ReturnEarly(call, 0, cache)
        ELSE IF items_df = <<>> THEN ReturnEarly(call, 0, Stored("items", items_df))
        ELSE /\ mark_writes(call, current_user, debt_ids, now, items_df)
             /\ UNCHANGED pending

\* approve_payments from the loop on (lines 1138-1186): archive_df is what
\* load_archive_df returned and now the time read at line 1132.
approve_writes(call, current_user, archive_ids, now, archive_df) ==
    LET sel == SelectedRows(archive_df, "uploader", current_user, archive_ids)
        notified == Notify(ApprovedNotes(archive_df, sel, current_user))
    IN  /\ archive' = ApproveArchive(archive, sel, current_user, now)
        /\ cache' = invalidate_data_cache(Stored("archive", archive_df))
        /\ sent' = notified.sent
        /\ ret' = call @@ [err |-> notified.err, value |-> 0]
        /\ UNCHANGED <<paychecks, items, uuids, smtp>>

\* approve_payments (lines 1122-1186), run without interruption.
approve_payments(call, current_user, archive_ids, now) ==
    LET archive_df == Fetch(cache.archive, archive)
    IN  IF archive_ids = <<>> THEN ReturnEarly(call, 0, cache)
        ELSE IF archive_df = <<>> THEN ReturnEarly(call, 0, Stored("archive", archive_df))
        ELSE /\ approve_writes(call, current_user, archive_ids, now, archive_df)
             /\ UNCHANGED pending

\* A faulty variant, for sensitivity analysis: the archive records of the deleted purchases are removed
\* as well.
batch_delete_expense_debts_and_archive(call, current_user, purchase_ids) ==
    LET items_df == Fetch(cache.items, items)
        matching == MatchingRows(items_df, current_user, purchase_ids)
        reqs == delete_requests(rows_to_delete(matching), 1)
        notified == Notify(DeletedNotes(items_df, matching, current_user))
    IN  IF purchase_ids = <<>> THEN ReturnEarly(call, 0, cache)
        ELSE IF matching = <<>> THEN ReturnEarly(call, 0, Stored("items", items_df))
        ELSE /\ items' = ApplyRequests(items, reqs)
             /\ archive' = SelectSeq(archive, LAMBDA r :
                               \A k \in DOMAIN matching :
                                   items_df[matching[k]].purchase_id # r.purchase_id)
             /\ cache' = invalidate_data_cache(Stored("items", items_df))
             /\ sent' = notified.sent
             /\ ret' = call @@ [err |-> notified.err, value |-> Len(notified.sent)]
             /\ UNCHANGED <<paychecks, uuids, pending, smtp>>

\* batch_delete_expense_debts (lines 952-1035): the rows are those of
\* items_df, what load_items_df returned, and go by sheet row number.
batch_delete_expense_debts(call, current_user, purchase_ids) ==
    LET items_df == Fetch(cache.items, items)
        matching == MatchingRows(items_df, current_user, purchase_ids)
        reqs == delete_requests(rows_to_delete(matching), 1)
        notified == Notify(DeletedNotes(items_df, matching, current_user))
    IN  IF purchase_ids = <<>> THEN ReturnEarly(call, 0, cache)
        ELSE IF matching = <<>> THEN ReturnEarly(call, 0, Stored("items", items_df))
        ELSE /\ items' = ApplyRequests(items, reqs)
             /\ cache' = invalidate_data_cache(Stored("items", items_df))
             /\ sent' = notified.sent
             /\ ret' = call @@ [err |-> notified.err, value |-> Len(notified.sent)]
             /\ UNCHANGED <<paychecks, archive, uuids, pending, smtp>>

\* A faulty variant, for sensitivity analysis: the single path raises when the purchase has rows and the
\* current user uploaded none of them.
delete_expense_debts_raising(call, current_user, purchase_id) ==
    IF /\ \E i \in DOMAIN items : items[i].purchase_id = purchase_id
       /\ MatchingRows(items, current_user, <<purchase_id>>) = <<>>
    THEN /\ ret' = call @@ [err |-> "PermissionError", value |-> 0]
         /\ sent' = <<>>
         /\ UNCHANGED <<paychecks, items, archive, uuids, cache, pending, smtp>>
    ELSE batch_delete_expense_debts(call, current_user, <<purchase_id>>)

\* delete_expense_debts (lines 947-949).
delete_expense_debts(call, current_user, purchase_id) ==
    batch_delete_expense_debts(call, current_user, <<purchase_id>>)

(***************************************************************************)
(* The ledger: every operation, from empty items and archive sheets.       *)
(***************************************************************************)
\* Inputs of the ledger specification.
LedgerPays == {1000}

LedgerAmounts == {0, 80}

LedgerDescriptions == {"milk "}

LedgerShareTypes == {"relative_all", "relative_others"}

Ids == 1 .. MaxUuid

IdLists == {<<i>> : i \in Ids} \cup {<<i, j>> : i \in Ids, j \in Ids}

Init ==
    /\ paychecks = <<>>
    /\ items = <<>>
    /\ archive = <<>>
    /\ uuids = 0
    /\ ret = [op |-> "init", err |-> "", value |-> 0]
    /\ sent = <<>>
    /\ cache = EmptyCache
    /\ pending = <<>>
    /\ smtp = TRUE

UpsertPaychecks ==
    \E username \in Users, p \in LedgerPays :
        /\ paychecks' = upsert_paychecks(paychecks, Fetch(cache.paychecks, paychecks),
                                         username, p, p, p)
        /\ ret' = [op |-> "upsert", err |-> "", value |-> 0]
        /\ sent' = <<>>
        /\ cache' = invalidate_data_cache(Stored("paychecks", Fetch(cache.paychecks, paychecks)))
        /\ UNCHANGED <<items, archive, uuids, pending, smtp>>

AddExpense ==
    \E uploader \in Users, amount \in LedgerAmounts, description \in LedgerDescriptions,
       share_type \in LedgerShareTypes, now \in Times :
        /\ add_expense_and_create_debts(uploader, description, amount, share_type,
                                        NoDate, FALSE, now, "")
        /\ uuids' <= MaxUuid

LedgerBatches ==
    {<<Expense(d1, a1, NoDate, FALSE), Expense(d2, a2, NoDate, FALSE)>> :
        d1 \in LedgerDescriptions, d2 \in LedgerDescriptions,
        a1 \in LedgerAmounts, a2 \in LedgerAmounts}

BatchAdd ==
    \E uploader \in Users, expenses \in LedgerBatches, share_type \in LedgerShareTypes,
       now \in Times :
        /\ Add("batch_add", uploader, expenses, share_type, now, "")
        /\ uuids' <= MaxUuid

MarkPaid ==
    \E current_user \in Users, debt_ids \in IdLists, now \in Times :
        /\ mark_debts_as_paid([op |-> "mark_paid"], current_user, debt_ids, now)
        /\ Len(archive') <= MaxArchive

Approve ==
    \E current_user \in Users, archive_ids \in IdLists, now \in Times :
        approve_payments([op |-> "approve"], current_user, archive_ids, now)

DeleteExpense ==
    \E current_user \in Users, purchase_id \in Ids :
        delete_expense_debts([op |-> "delete"], current_user, purchase_id)

BatchDelete ==
    \E current_user \in Users, purchase_ids \in IdLists :
        /\ Len(purchase_ids) > 1
        /\ batch_delete_expense_debts([op |-> "batch_delete"], current_user, purchase_ids)

Next ==
    \/ UpsertPaychecks
    \/ AddExpense
    \/ BatchAdd
    \/ MarkPaid
    \/ Approve
    \/ DeleteExpense
    \/ BatchDelete

Spec == Init /\ [][Next]_vars


(***************************************************************************)
(* The splitter alone: one call, single or batch, on an empty ledger, for  *)
(* every paychecks sheet and every input of the sets below.                *)
(***************************************************************************)
\* The pay cells of one paychecks row: means 1000, 3000, 2000 (one cell not
\* numeric), 5000, 0, and no numeric cell at all.
PayRows ==
    {<<Num(1000), Num(1000), Num(1000)>>,
     <<Num(1000), Num(3000), Num(5000)>>,
     <<Num(1000), Blank, Num(3000)>>,
     <<Num(5000), Num(5000), Num(5000)>>,
     <<Num(0), Num(0), Num(0)>>,
     <<Blank, Blank, Blank>>}

\* The pay cells of a row of a user outside the roster.
OutsiderRows == {<<Num(5000), Num(5000), Num(5000)>>}

\* The sheet with one row for each holder in present, in the order of Holders.
SheetOf(present, pays) ==
    LET who == SelectSeq(Holders, LAMBDA h : h \in present)
    IN  [i \in DOMAIN who |->
            [username |-> who[i], pay1 |-> pays[who[i]][1],
             pay2 |-> pays[who[i]][2], pay3 |-> pays[who[i]][3]]]

HolderSet == {Holders[i] : i \in DOMAIN Holders}

SplitAmounts == {0 - 100, 0, 75, 40000}

SplitDescriptions == {" ", "milk "}

SplitShareTypes == {"self", "relative_all", "relative_others", "equal"}

\* What upload_receipt_file returns for a file (lines 734-793): a link, or
\* None when the folder is not configured, the file is empty or Drive fails.
SplitUploads == {"", "url"}

SplitExpenses ==
    {Expense(d, a, NoDate, FALSE) : d \in SplitDescriptions, a \in SplitAmounts}

\* Batches whose expenses come with a receipt file; in the second the first
\* expense is not valid.
FileBatches ==
    {<<Expense("milk ", 75, NoDate, TRUE), Expense("milk ", 40000, NoDate, TRUE)>>,
     <<Expense(" ", 75, NoDate, TRUE), Expense("milk ", 40000, NoDate, TRUE)>>}

SplitBatches == UNION {[1 .. n -> SplitExpenses] : n \in 0 .. MaxBatch} \cup FileBatches

SplitInit ==
    /\ \E present \in SUBSET HolderSet, pays \in [RosterSet -> PayRows],
          outsider \in OutsiderRows :
          paychecks = SheetOf(present, [h \in HolderSet |->
                                          IF h \in RosterSet THEN pays[h] ELSE outsider])
    /\ items = <<>>
    /\ archive = <<>>
    /\ uuids = 0
    /\ ret = [op |-> "init", err |-> "", value |-> 0]
    /\ sent = <<>>
    /\ cache = EmptyCache
    /\ pending = <<>>
    /\ smtp = TRUE

SplitAdd ==
    /\ ret.op = "init"
    /\ \E uploader \in Users, amount \in SplitAmounts, description \in SplitDescriptions,
          share_type \in SplitShareTypes, file \in BOOLEAN,
          upload \in SplitUploads :
          /\ ~file => upload = ""
          /\ add_expense_and_create_debts(uploader, description, amount, share_type,
                                          NoDate, file, 1, upload)

SplitBatchAdd ==
    /\ ret.op = "init"
    /\ \E uploader \in Users, expenses \in SplitBatches, share_type \in SplitShareTypes :
          Add("batch_add", uploader, expenses, share_type, 1, "url")

SplitNext ==
    \/ SplitAdd
    \/ SplitBatchAdd

SplitSpec == SplitInit /\ [][SplitNext]_vars


(***************************************************************************)
(* Settlement: every operation on a ledger where two of the three users    *)
(* have filed their paychecks.  The log keeps the arguments of each call,  *)
(* and the clock (datetime.now) advances by one with every operation.      *)
(***************************************************************************)
\* Operations of one run.
MaxClock == 4
\* Uuids the settlement specification lets the program draw (three purchases
\* of one row each, or two purchases of two rows each).
MaxSettleUuid == 6

\* The paychecks sheet after a and then u saved 1000, 1000, 1000; b has
\* saved nothing yet.  A purchase of a or of u has one row, one of b two.
SettlePaychecks ==
    <<[username |-> "a", pay1 |-> Num(1000), pay2 |-> Num(1000), pay3 |-> Num(1000)],
      [username |-> "u", pay1 |-> Num(1000), pay2 |-> Num(1000), pay3 |-> Num(1000)]>>

SettleAmounts == {80}

SettleIds == 1 .. MaxSettleUuid

\* The id lists of a request: one id, the same id twice, or two ids at most
\* four uuids apart (two rows or two purchases, next to each other or with
\* another purchase between them).
SettleIdLists ==
    {<<i>> : i \in SettleIds}
        \cup {pair \in {<<i, j>> : i \in SettleIds, j \in SettleIds} :
                pair[1] <= pair[2] /\ pair[2] <= pair[1] + 4}

SettleInit ==
    /\ paychecks = SettlePaychecks
    /\ items = <<>>
    /\ archive = <<>>
    /\ uuids = 0
    /\ ret = [op |-> "init", err |-> "", value |-> 0, now |-> 0]
    /\ sent = <<>>
    /\ cache = EmptyCache
    /\ pending = <<>>
    /\ smtp = TRUE

\* The clock reading of the next operation.
Tick == ret.now + 1

SettleAdd ==
    /\ Tick <= MaxClock
    /\ \E uploader \in Users, amount \in SettleAmounts :
          /\ add_expense_and_create_debts(uploader, "milk ", amount, "relative_others",
                                          NoDate, FALSE, Tick, "")
          /\ uuids' <= MaxSettleUuid

\* A batch of two expenses that differ in description and amount.
SettleBatchAdd ==
    /\ Tick <= MaxClock
    /\ \E uploader \in Users, amount \in SettleAmounts :
          /\ Add("batch_add", uploader,
                 <<Expense("milk ", amount, NoDate, FALSE),
                   Expense("eggs", amount - 20, NoDate, FALSE)>>,
                 "relative_others", Tick, "")
          /\ uuids' <= MaxSettleUuid

SettleMarkPaid ==
    /\ Tick <= MaxClock
    /\ \E current_user \in Users, debt_ids \in SettleIdLists :
          mark_debts_as_paid([op |-> "mark_paid", user |-> current_user,
                              ids |-> debt_ids, now |-> Tick],
                             current_user, debt_ids, Tick)

SettleApprove ==
    /\ Tick <= MaxClock
    /\ \E current_user \in Users, archive_ids \in SettleIdLists :
          approve_payments([op |-> "approve", user |-> current_user,
                            ids |-> archive_ids, now |-> Tick],
                           current_user, archive_ids, Tick)

SettleDelete ==
    /\ Tick <= MaxClock
    /\ \E current_user \in Users, purchase_id \in SettleIds :
          delete_expense_debts([op |-> "delete", user |-> current_user,
                                ids |-> <<purchase_id>>, now |-> Tick],
                               current_user, purchase_id)

SettleBatchDelete ==
    /\ Tick <= MaxClock
    /\ \E current_user \in Users, purchase_ids \in SettleIdLists :
          /\ Len(purchase_ids) > 1
          /\ batch_delete_expense_debts([op |-> "batch_delete", user |-> current_user,
                                         ids |-> purchase_ids, now |-> Tick],
                                        current_user, purchase_ids)

SettleNext ==
    \/ SettleAdd
    \/ SettleBatchAdd
    \/ SettleMarkPaid
    \/ SettleApprove
    \/ SettleDelete
    \/ SettleBatchDelete

SettleSpec == SettleInit /\ [][SettleNext]_vars


(***************************************************************************)
(* Settlement with a mail server that may be down: the operations of the   *)
(* settlement specification, each sending its notifications to a server    *)
(* that answers or not.                                                    *)
(***************************************************************************)
NotifyInit ==
    /\ paychecks = SettlePaychecks
    /\ items = <<>>
    /\ archive = <<>>
    /\ uuids = 0
    /\ ret = [op |-> "init", err |-> "", value |-> 0, now |-> 0]
    /\ sent = <<>>
    /\ cache = EmptyCache
    /\ pending = <<>>
    /\ smtp \in BOOLEAN

\* The mail server goes down or comes back (smtplib.SMTP_SSL and
\* server.send_message of lines 378-385 raise while it is down).
MailServerFlips ==
    /\ smtp' = ~smtp
    /\ UNCHANGED <<paychecks, items, archive, uuids, ret, sent, cache, pending>>

NotifyNext ==
    \/ SettleNext
    \/ MailServerFlips

NotifySpec == NotifyInit /\ [][NotifyNext]_vars


(***************************************************************************)
(* Concurrent sessions.  Nothing locks the spreadsheet, so between the     *)
(* load of a sheet by mark_debts_as_paid or approve_payments and the       *)
(* writes of that call, calls of other sessions may run.  A call in flight *)
(* holds the rows it loaded and the time it read; here a call of the       *)
(* splitter or a delete runs without interruption.                         *)
(***************************************************************************)
MaxRaceClock == 5

MaxRaceUuid == 5

MaxPending == 2

RaceIds == 1 .. MaxRaceUuid

RaceInit ==
    /\ paychecks = SettlePaychecks
    /\ items = <<>>
    /\ archive = <<>>
    /\ uuids = 0
    /\ ret = [op |-> "init", err |-> "", value |-> 0, now |-> 0]
    /\ sent = <<>>
    /\ cache = EmptyCache
    /\ pending = <<>>
    /\ smtp = TRUE

\* The first half of mark_debts_as_paid (lines 1038-1049) or of
\* approve_payments (lines 1123-1132): the sheet is loaded through the cache
\* and the time is read; on an empty sheet the call returns.
Begin(call, key, df) ==
    IF df = <<>> THEN ReturnEarly(call, 0, Stored(key, df))
    ELSE /\ pending' = Append(pending, call @@ [df |-> df])
         /\ cache' = Stored(key, df)
         /\ ret' = [op |-> "begin", err |-> "", value |-> 0, now |-> call.now]
         /\ sent' = <<>>
         /\ UNCHANGED <<paychecks, items, archive, uuids, smtp>>

\* What the log keeps of a call in flight when it returns: the time it
\* returns, the time it read and the rows it loaded.
Finished(c) ==
    [op |-> c.op, user |-> c.user, ids |-> c.ids, now |-> Tick, read_at |-> c.now,
     read |-> c.df]

Remove(s, k) == SubSeq(s, 1, k - 1) \o SubSeq(s, k + 1, Len(s))

RaceAdd ==
    /\ Tick <= MaxRaceClock
    /\ \E uploader \in Users :
          /\ add_expense_and_create_debts(uploader, "milk ", 80, "relative_others",
                                          NoDate, FALSE, Tick, "")
          /\ uuids' <= MaxRaceUuid

RaceBeginMark ==
    /\ Tick <= MaxRaceClock
    /\ Len(pending) < MaxPending
    /\ \E current_user \in Users, id \in RaceIds :
          Begin([op |-> "mark_paid", user |-> current_user, ids |-> <<id>>, now |-> Tick],
                "items", Fetch(cache.items, items))

RaceFinishMark ==
    /\ Tick <= MaxRaceClock
    /\ \E k \in DOMAIN pending :
          /\ pending[k].op = "mark_paid"
          /\ mark_writes(Finished(pending[k]), pending[k].user, pending[k].ids,
                         pending[k].now, pending[k].df)
          /\ pending' = Remove(pending, k)

RaceBeginApprove ==
    /\ Tick <= MaxRaceClock
    /\ Len(pending) < MaxPending
    /\ \E current_user \in Users, id \in RaceIds :
          Begin([op |-> "approve", user |-> current_user, ids |-> <<id>>, now |-> Tick],
                "archive", Fetch(cache.archive, archive))

RaceFinishApprove ==
    /\ Tick <= MaxRaceClock
    /\ \E k \in DOMAIN pending :
          /\ pending[k].op = "approve"
          /\ approve_writes(Finished(pending[k]), pending[k].user, pending[k].ids,
                            pending[k].now, pending[k].df)
          /\ pending' = Remove(pending, k)

RaceDelete ==
    /\ Tick <= MaxRaceClock
    /\ \E current_user \in Users, purchase_id \in RaceIds :
          delete_expense_debts([op |-> "delete", user |-> current_user,
                                ids |-> <<purchase_id>>, now |-> Tick],
                               current_user, purchase_id)

RaceNext ==
    \/ RaceAdd
    \/ RaceBeginMark
    \/ RaceFinishMark
    \/ RaceBeginApprove
    \/ RaceFinishApprove
    \/ RaceDelete

RaceSpec == RaceInit /\ [][RaceNext]_vars


(***************************************************************************)
(* The paychecks page alone: users save their three pay amounts, again and *)
(* again, and the page is rendered from the cached sheet in between.       *)
(***************************************************************************)
MaxPayRows == 3

\* The three amounts of a form (lines 1423-1441).
PayForms == {<<1000, 1000, 1000>>, <<1000, 3000, 5000>>}

PayInit ==
    /\ paychecks = <<>>
    /\ items = <<>>
    /\ archive = <<>>
    /\ uuids = 0
    /\ ret = [op |-> "init", err |-> "", value |-> 0]
    /\ sent = <<>>
    /\ cache = EmptyCache
    /\ pending = <<>>
    /\ smtp = TRUE

\* The form of page_paychecks is submitted (lines 1444-1448).
PaySave ==
    \E username \in Users, pays \in PayForms :
        /\ paychecks' = upsert_paychecks(paychecks, Fetch(cache.paychecks, paychecks),
                                         username, pays[1], pays[2], pays[3])
        /\ Len(paychecks') <= MaxPayRows
        /\ ret' = [op |-> "upsert", user |-> username, pays |-> pays, err |-> "",
                   value |-> 0]
        /\ sent' = <<>>
        /\ cache' = invalidate_data_cache(Stored("paychecks", Fetch(cache.paychecks, paychecks)))
        /\ UNCHANGED <<items, archive, uuids, pending, smtp>>

\* page_paychecks is rendered (lines 1409, 1450): the sheet and the income
\* means are loaded through the cache.
PayRender ==
    \E username \in Users :
        /\ ret' = [op |-> "render", user |-> username, err |-> "", value |-> 0]
        /\ sent' = <<>>
        /\ cache' = [MeansStored EXCEPT !.paychecks = <<Fetch(cache.paychecks, paychecks)>>]
        /\ UNCHANGED <<paychecks, items, archive, uuids, pending, smtp>>

PayNext ==
    \/ PaySave
    \/ PayRender

PaySpec == PayInit /\ [][PayNext]_vars


(***************************************************************************)
(* The delete ranges alone: one batch delete by the uploader, for every    *)
(* choice of purchases, on an items sheet of one-row purchases.            *)
(***************************************************************************)
MaxRows == 7

\* The items sheet after u added n expenses that a alone shares: purchase
\* 2k - 1 with the single row 2k.
RECURSIVE Purchases(_)
Purchases(n) ==
    IF n = 0 THEN <<>>
    ELSE LET out == CHOOSE o \in BatchOutcomes("u", <<Expense("milk ", 80, NoDate, FALSE)>>,
                                               "relative_others", SettlePaychecks,
                                               2 * (n - 1), n, "") : TRUE
         IN  Purchases(n - 1) \o out.rows

RangeInit ==
    /\ paychecks = SettlePaychecks
    /\ items \in {Purchases(n) : n \in 1 .. MaxRows}
    /\ archive = <<>>
    /\ uuids = 2 * Len(items)
    /\ ret = [op |-> "init", err |-> "", value |-> 0, now |-> Len(items)]
    /\ sent = <<>>
    /\ cache = EmptyCache
    /\ pending = <<>>
    /\ smtp = TRUE

\* The batch delete of the dashboard (line 1376) for the selected purchases.
RangeDelete ==
    /\ ret.op = "init"
    /\ \E chosen \in SUBSET {items[i].purchase_id : i \in DOMAIN items} :
          /\ chosen # {}
          /\ batch_delete_expense_debts([op |-> "batch_delete", user |-> "u",
                                         ids |-> SortedReverse(chosen), now |-> Tick],
                                        "u", SortedReverse(chosen))

RangeNext == RangeDelete

RangeSpec == RangeInit /\ [][RangeNext]_vars


(***************************************************************************)
(* Properties.                                                             *)
(***************************************************************************)
\* The last operation was a call of the splitter.
AddCall == ret.op \in {"add", "batch_add"}

AddOk == AddCall /\ ret.err = ""

RowsOfPurchase(pid) == SelectSeq(items, LAMBDA row : row.purchase_id = pid)

OwedSum(pid) ==
    LET rows == RowsOfPurchase(pid)
    IN  SumSeq([i \in DOMAIN rows |-> rows[i].amount_owed])

\* The income means of the three roster users are exactly ma, mb and mu.
MeansAre(ma, mb, mu) ==
    LET means == compute_income_means(paychecks)
    IN  /\ RosterSet \subseteq DOMAIN means
        /\ means["a"] = ma * MeanScale
        /\ means["b"] = mb * MeanScale
        /\ means["u"] = mu * MeanScale

\* The call held exactly one valid expense, of the given amount in cents.
OneValidExpense(amount) ==
    /\ Len(ValidExpenses(ret.expenses)) = 1
    /\ ValidExpenses(ret.expenses)[1].amount = amount

RECURSIVE SumOver(_, _)
SumOver(S, f) ==
    IF S = {} THEN 0
    ELSE LET x == CHOOSE y \in S : TRUE
         IN  f[x] + SumOver(S \ {x}, f)

\* C1: the rounded shares of the rows written for one expense never add up
\* to more than that expense's total amount, so the uploader's implicit
\* remainder is never negative.
C1_SharesWithinTotal ==
    AddOk => \A i \in DOMAIN items :
                OwedSum(items[i].purchase_id) <= items[i].amount_total

\* C2 (as claimed): relative_all with means a:1000, b:3000, u:2000, uploader
\* u and total 400 gives rows for a and b from denominator 4000, owing 100.00
\* and 300.00.
C2_DenominatorWithoutUploader ==
    (/\ AddOk
     /\ ret.share_type = "relative_all"
     /\ ret.user = "u"
     /\ MeansAre(1000, 3000, 2000)
     /\ OneValidExpense(40000))
    => /\ Len(items) = 2
       /\ items[1].debtor = "a" /\ items[2].debtor = "b"
       /\ ret.denom = 4000 * MeanScale
       /\ items[1].amount_owed = 10000
       /\ items[2].amount_owed = 30000

\* C2 (amended): in that case the rows are exactly those of a and b, the
\* denominator is 6000 (the uploader's mean included), and a owes 66.67 and
\* b owes 200.00.
C2_RelativeAllExample ==
    (/\ AddOk
     /\ ret.share_type = "relative_all"
     /\ ret.user = "u"
     /\ MeansAre(1000, 3000, 2000)
     /\ OneValidExpense(40000))
    => /\ Len(items) = 2
       /\ items[1].debtor = "a" /\ items[2].debtor = "b"
       /\ ret.denom = 6000 * MeanScale
       /\ items[1].amount_owed = 6667
       /\ items[2].amount_owed = 20000

C2_Witness ==
    /\ AddOk
    /\ ret.share_type = "relative_all"
    /\ ret.user = "u"
    /\ MeansAre(1000, 3000, 2000)
    /\ OneValidExpense(40000)
    /\ Len(items) = 2

\* The roster users that have an income mean.
WithIncome == RosterSet \cap DOMAIN compute_income_means(paychecks)

\* C3: under relative_all the denominator is the sum of the means of every
\* roster user with income data, the uploader included; under
\* relative_others it is the sum over the other users only.  With means
\* u:5000, a:1000, b:1000 and uploader u the denominators are 7000 and 2000,
\* and no share produced under one policy is a share the other policy gives
\* for the same total.
C3_Denominators ==
    LET means == compute_income_means(paychecks)
        example == ret.user = "u" /\ MeansAre(1000, 1000, 5000)
        otherDenom == IF ret.share_type = "relative_all" THEN 2000 ELSE 7000
    IN  AddOk /\ ret.share_type \in {"relative_all", "relative_others"} =>
          /\ ret.share_type = "relative_all" =>
                ret.denom = SumOver(WithIncome, means)
          /\ ret.share_type = "relative_others" =>
                ret.denom = SumOver(WithIncome \ {ret.user}, means)
          /\ example /\ ret.share_type = "relative_all" =>
                ret.denom = 7000 * MeanScale
          /\ example /\ ret.share_type = "relative_others" =>
                ret.denom = 2000 * MeanScale
          /\ example =>
                \A i \in DOMAIN items :
                    items[i].amount_owed \notin
                        Share(items[i].amount_total, 1000 * MeanScale,
                              otherDenom * MeanScale)

C3_Witness ==
    /\ AddOk
    /\ ret.share_type = "relative_others"
    /\ ret.user = "u"
    /\ MeansAre(1000, 1000, 5000)
    /\ ret.denom = 2000 * MeanScale
    /\ Len(items) = 2


\* C4: in every reachable state of the ledger no record of the items sheet
\* and no record of the archive sheet has its debtor equal to its uploader.
C4_NoSelfDebt ==
    /\ \A i \in DOMAIN items : items[i].debtor # items[i].uploader
    /\ \A i \in DOMAIN archive : archive[i].debtor # archive[i].uploader

\* A relative_all debt whose uploader has income data went through the whole
\* settlement: it is active, paid and its archive copy is approved.
C4_Witness ==
    \E i \in DOMAIN items, k \in DOMAIN archive :
        /\ items[i].share_type = "relative_all"
        /\ items[i].uploader \in WithIncome
        /\ items[i].paid
        /\ archive[k].id = items[i].id
        /\ archive[k].approved

\* An expense that passes the validation of the splitter, stated on its
\* fields.
Chargeable(exp) == exp.amount > 0 /\ exp.description \notin {"", " "}

ChargeableCount == Cardinality({i \in DOMAIN ret.expenses : Chargeable(ret.expenses[i])})

\* C5: with policy self, a call whose expenses all have a positive amount
\* returns without error, produces no row and writes nothing.
C5_SelfCreatesNothing ==
    (/\ AddCall
     /\ ret.share_type = "self"
     /\ \A i \in DOMAIN ret.expenses : ret.expenses[i].amount > 0)
    => /\ ret.err = ""
       /\ ret.value = 0
       /\ ret.rows = <<>>
       /\ items = <<>>
       /\ archive = <<>>

C5_Witness ==
    /\ AddCall
    /\ ret.share_type = "self"
    /\ ret.expenses # <<>>
    /\ \A i \in DOMAIN ret.expenses : Chargeable(ret.expenses[i])
    /\ WithIncome = RosterSet
    /\ ret.err = ""
    /\ items = <<>>

\* C6 (as claimed): a call that holds an expense whose amount is zero or
\* negative fails with the validation error, whatever the policy and the
\* position of that expense.
C6_NonPositiveAlwaysFails ==
    (AddCall /\ \E i \in DOMAIN ret.expenses : ret.expenses[i].amount <= 0)
    => ret.err = "NoValidExpenses"

\* C6 (amended): no row is ever written for an expense whose amount is zero
\* or negative; the call fails with the validation error exactly when the
\* policy is not self and no expense of the call is valid; under self it
\* returns without error, and in a call that holds a valid expense the
\* invalid ones are skipped: a successful call writes rows for the valid
\* expenses only and returns their number.
C6_NonPositiveNeverWritten ==
    AddCall =>
        /\ \A i \in DOMAIN items : items[i].amount_total > 0
        /\ ret.share_type = "self" => ret.err = "" /\ items = <<>>
        /\ ret.share_type # "self" =>
              (ret.err = "NoValidExpenses" <=> ChargeableCount = 0)
        /\ ret.err = "NoValidExpenses" => items = <<>>
        /\ AddOk /\ ret.share_type # "self" =>
              /\ ret.value = ChargeableCount
              /\ Cardinality({items[i].purchase_id : i \in DOMAIN items}) = ChargeableCount

\* A batch whose first expense has a non-positive amount and whose second
\* expense is valid succeeded and wrote rows.
C6_Witness ==
    /\ AddOk
    /\ ret.op = "batch_add"
    /\ Len(ret.expenses) = 2
    /\ ret.expenses[1].amount <= 0
    /\ Chargeable(ret.expenses[2])
    /\ items # <<>>

\* No row of the paychecks sheet holds a numeric pay cell: no user has an
\* income mean.
NoNumericPay ==
    \A i \in DOMAIN paychecks :
        /\ paychecks[i].pay1 = Blank
        /\ paychecks[i].pay2 = Blank
        /\ paychecks[i].pay3 = Blank

\* C7: when no user has an income mean, creating a (valid) expense with a
\* policy other than self fails with the no-income-data error and the items
\* sheet is unchanged.
C7_NoIncomeData ==
    (/\ AddCall
     /\ ret.share_type # "self"
     /\ NoNumericPay
     /\ ChargeableCount > 0)
    => /\ ret.err = "NoIncomeData"
       /\ items = <<>>

\* The sheet holds rows, none with a numeric cell, and a valid expense was
\* refused for want of income data.
C7_Witness ==
    /\ AddCall
    /\ ret.share_type = "relative_all"
    /\ paychecks # <<>>
    /\ NoNumericPay
    /\ ChargeableCount > 0
    /\ ret.err = "NoIncomeData"

\* C8: a call of the splitter, single or batch, that ends in an error leaves
\* the items and the archive sheet as they were; a successful call appends
\* exactly its rows to the items sheet and leaves the archive alone.
C8_ErrorsWriteNothing ==
    [][ret'.op \in {"add", "batch_add"} =>
          /\ archive' = archive
          /\ ret'.err # "" => items' = items
          /\ ret'.err = "" => items' = items \o ret'.rows]_vars

\* A call of the splitter failed on a ledger that holds active and archived
\* records.
C8_Witness ==
    /\ AddCall
    /\ ret.err # ""
    /\ items # <<>>
    /\ archive # <<>>

\* The user owns a paychecks row with a numeric pay cell.
HasIncome(u) ==
    \E i \in DOMAIN paychecks :
        /\ paychecks[i].username = u
        /\ \/ paychecks[i].pay1 # Blank
           \/ paychecks[i].pay2 # Blank
           \/ paychecks[i].pay3 # Blank

\* C9: under relative_all or relative_others, when no roster user other than
\* the uploader has income data, the call fails and writes no row.
C9_NoOtherParticipant ==
    (/\ AddCall
     /\ ret.share_type \in {"relative_all", "relative_others"}
     /\ \A u \in RosterSet \ {ret.user} : ~HasIncome(u))
    => /\ ret.err # ""
       /\ items = <<>>

\* relative_all where the uploader alone has (positive) income data: the
\* call gets as far as building rows and fails because there are none.
C9_Witness ==
    /\ AddCall
    /\ ret.share_type = "relative_all"
    /\ HasIncome(ret.user)
    /\ \A u \in RosterSet \ {ret.user} : ~HasIncome(u)
    /\ ret.err = "NoRows"
    /\ items = <<>>

\* The paychecks rows of roster users.
RosterRows == SelectSeq(paychecks, LAMBDA row : row.username \in RosterSet)

\* C10: a username outside the roster is never the debtor of a created row
\* and adds nothing to the denominator, even when the paychecks sheet holds
\* a row with a valid average for it: the denominator is the one the call
\* computes from the roster users' rows alone.
C10_RosterOnly ==
    AddOk /\ ret.share_type # "self" =>
        LET means == compute_income_means(RosterRows)
        IN  /\ \A i \in DOMAIN items : items[i].debtor \in RosterSet
            /\ ret.denom = Denom(Participants(ret.share_type, ret.user, means), means)

\* A call succeeded while the user outside the roster had a valid average.
C10_Witness ==
    /\ AddOk
    /\ HasIncome("x")
    /\ items # <<>>

\* The rows the last call of the splitter wrote for its k-th chargeable
\* expense, when each expense gets n rows.
Block(k, n) == SubSeq(ret.rows, (k - 1) * n + 1, k * n)

\* The roster users with income data other than the caller of the last call.
OtherDebtors == {u \in RosterSet : HasIncome(u) /\ u # ret.user}

ChargeableExpenses == SelectSeq(ret.expenses, Chargeable)

\* C11: a successful call of the splitter writes, for each of its expenses,
\* exactly one row per participant other than the uploader; the rows of one
\* expense share one purchase_id, description, amount_total, timestamp and
\* purchase date; every row of the sheet has an id of its own; and the
\* purchase_id of an expense is that of no other expense, of the same batch
\* or of an earlier call.  (A call with policy self writes nothing: C5.)
C11_RowsOfAnExpense ==
    AddOk /\ ret.share_type # "self" =>
        LET n == Cardinality(OtherDebtors)
            exps == ChargeableExpenses
            old == SubSeq(items, 1, Len(items) - Len(ret.rows))
        IN  /\ items = old \o ret.rows
            /\ Len(ret.rows) = n * Len(exps)
            /\ \A k \in DOMAIN exps :
                  LET rows == Block(k, n)
                  IN  /\ {rows[i].debtor : i \in DOMAIN rows} = OtherDebtors
                      /\ \A i \in DOMAIN rows :
                            /\ rows[i].purchase_id = rows[1].purchase_id
                            /\ rows[i].description = rows[1].description
                            /\ rows[i].amount_total = exps[k].amount
                            /\ rows[i].timestamp = ret.now
                            /\ rows[i].purchase_date = rows[1].purchase_date
                      /\ \A j \in DOMAIN exps :
                            j # k => Block(j, n)[1].purchase_id # rows[1].purchase_id
                      /\ \A i \in DOMAIN old :
                            old[i].purchase_id # rows[1].purchase_id
            /\ \A i \in DOMAIN items : \A j \in DOMAIN items :
                  i # j => items[i].id # items[j].id

\* A batch of two expenses was added to a sheet that held an earlier purchase.
C11_Witness ==
    /\ AddOk
    /\ ret.op = "batch_add"
    /\ Len(ChargeableExpenses) = 2
    /\ Len(items) > Len(ret.rows)

\* The first valid expense of the last call came with a receipt file.
ReceiptSupplied == ChargeableExpenses # <<>> /\ ChargeableExpenses[1].file

\* C12 (as claimed): when a receipt is supplied, at most one of the rows
\* written holds a receipt reference, and it is the first row.
C12_ReceiptOnOneRow ==
    AddOk /\ ret.share_type # "self" /\ ReceiptSupplied =>
        \A i \in DOMAIN ret.rows : i > 1 => ret.rows[i].receipt_url = ""

\* C12 (amended): every row written for the first valid expense of a call
\* holds the reference the upload of its receipt returned (all of them the
\* same one, empty when no file came with the expense or the upload gave no
\* link), and every row of a later expense of the batch holds none.
C12_ReceiptOnEveryRow ==
    AddOk /\ ret.share_type # "self" =>
        LET n == Cardinality(OtherDebtors)
        IN  \A k \in DOMAIN ChargeableExpenses :
                \A i \in DOMAIN Block(k, n) :
                    Block(k, n)[i].receipt_url =
                        IF k = 1 /\ ReceiptSupplied THEN ret.upload ELSE ""

\* A batch of two expenses with receipts, two debtors each, the upload
\* giving a link.
C12_Witness ==
    /\ AddOk
    /\ ReceiptSupplied
    /\ Len(ChargeableExpenses) = 2
    /\ ChargeableExpenses[2].file
    /\ Len(ret.rows) = 4
    /\ ret.rows[1].receipt_url = "url"
    /\ ret.rows[2].receipt_url = "url"
    /\ ret.rows[3].receipt_url = ""

\* The ids of a request, in request order, that name a record of the sheet
\* whose owner column (debtor or uploader) holds the user.
OwnIds(sheet, owner, user, ids) ==
    SelectSeq(ids, LAMBDA id : \E i \in DOMAIN sheet :
                                  sheet[i].id = id /\ sheet[i][owner] = user)

\* The rows a step appended to the archive sheet.
Archived == SubSeq(archive', Len(archive) + 1, Len(archive'))

\* C13: mark_debts_as_paid raises nothing; an id without an active record,
\* or whose record has another debtor, changes no active record, appends no
\* archive row and sends no notification; each id of the request whose
\* debtor is the acting user sets paid, paid_at and paid_by = acting user on
\* that one active record and appends one archive row with approved = false.
C13_MarkPaidByDebtorOnly ==
    [][ret'.op = "mark_paid" =>
        LET own == OwnIds(items, "debtor", ret'.user, ret'.ids)
        IN  /\ ret'.err = ""
            /\ DOMAIN items' = DOMAIN items
            /\ \A i \in DOMAIN items :
                  IF items[i].id \in IndexSet(own)
                  THEN /\ items'[i].paid = TRUE
                       /\ items'[i].paid_at = ret'.now
                       /\ items'[i].paid_by = ret'.user
                  ELSE items'[i] = items[i]
            /\ SubSeq(archive', 1, Len(archive)) = archive
            /\ Len(Archived) = Len(own)
            /\ \A k \in DOMAIN own :
                  /\ Archived[k].id = own[k]
                  /\ Archived[k].approved = FALSE
            /\ Len(sent') = Len(own)]_vars

\* A request for one's own debt and for someone else's: one notification,
\* and the other record still unpaid.
C13_Witness ==
    /\ ret.op = "mark_paid"
    /\ Len(ret.ids) = 2
    /\ Len(sent) = 1
    /\ \E i \in DOMAIN items, j \in DOMAIN items :
          /\ items[i].id = ret.ids[1] /\ items[i].debtor = ret.user /\ items[i].paid
          /\ items[j].id = ret.ids[2] /\ items[j].debtor # ret.user /\ ~items[j].paid

\* The columns of an items row that settlement never writes.
FixedColumns ==
    {"id", "purchase_id", "timestamp", "purchase_date", "uploader", "debtor",
     "description", "amount_total", "amount_owed", "share_type", "receipt_url"}

\* The active record with the given id, as it was before the step.
ActiveRecord(id) == items[CHOOSE i \in DOMAIN items : items[i].id = id]

\* C14: each archive row appended by mark_debts_as_paid equals the active
\* record it was made from in every column of the items sheet except paid,
\* paid_at and paid_by, which are true, the time of the call and the acting
\* user, and it is not approved; the records the archive held before the
\* call stay as they were and where they were; and no column of an active
\* record other than paid, paid_at and paid_by changes.
C14_ArchiveRowIsACopy ==
    [][ret'.op = "mark_paid" =>
        LET own == OwnIds(items, "debtor", ret'.user, ret'.ids)
        IN  /\ Len(archive') = Len(archive) + Len(own)
            /\ \A k \in DOMAIN archive : archive'[k] = archive[k]
            /\ \A k \in DOMAIN own :
                  /\ \A col \in FixedColumns : Archived[k][col] = ActiveRecord(own[k])[col]
                  /\ Archived[k].paid = TRUE
                  /\ Archived[k].paid_at = ret'.now
                  /\ Archived[k].paid_by = ret'.user
                  /\ Archived[k].approved = FALSE
                  /\ Archived[k].approved_at = NoTime
                  /\ Archived[k].approved_by = ""
            /\ DOMAIN items' = DOMAIN items
            /\ \A i \in DOMAIN items : \A col \in FixedColumns :
                  items'[i][col] = items[i][col]]_vars

\* A debt was marked paid while the archive already held the record of an
\* earlier payment of another debt.
C14_Witness ==
    /\ ret.op = "mark_paid"
    /\ Len(sent) = 1
    /\ Len(archive) = 2
    /\ archive[1].id # archive[2].id
    /\ archive[1].paid_at < archive[2].paid_at
    /\ archive[2].paid_at = ret.now

\* C15: whatever mark_debts_as_paid calls were made, with an id passed in
\* two calls or twice in one call, the archive holds at most one record per
\* debt id, and no notification is sent for a debt that was already paid.
C15_OneArchiveRecordPerDebt ==
    /\ \A i \in DOMAIN archive : \A j \in DOMAIN archive :
          i # j => archive[i].id # archive[j].id
    /\ ret.op = "mark_paid" =>
          \A k \in DOMAIN sent : \A l \in DOMAIN sent :
              k # l => ret.ids[k] # ret.ids[l]

\* The columns of an archive row that approval never writes.
PaidColumns == FixedColumns \cup {"paid", "paid_at", "paid_by"}

\* The archive record an id of a request stands for: the first of the sheet
\* with that id.
IsRecordOf(i, ids) ==
    /\ archive[i].id \in IndexSet(ids)
    /\ \A j \in DOMAIN archive : j < i => archive[j].id # archive[i].id

\* C16: approve_payments changes nothing for an id without an archive
\* record or whose record has another uploader; for an id whose uploader is
\* the acting user it sets approved, approved_at and approved_by = acting
\* user on the archive record, changes no other column of it, and changes no
\* active record.
C16_ApproveByUploaderOnly ==
    [][ret'.op = "approve" =>
        LET own == OwnIds(archive, "uploader", ret'.user, ret'.ids)
        IN  /\ ret'.err = ""
            /\ items' = items
            /\ DOMAIN archive' = DOMAIN archive
            /\ \A i \in DOMAIN archive :
                  IF IsRecordOf(i, own)
                  THEN /\ archive'[i].approved = TRUE
                       /\ archive'[i].approved_at = ret'.now
                       /\ archive'[i].approved_by = ret'.user
                       /\ \A col \in PaidColumns : archive'[i][col] = archive[i][col]
                  ELSE archive'[i] = archive[i]
            /\ own = <<>> => sent' = <<>>]_vars

\* A request for a payment of one's own purchase and for one of somebody
\* else's purchase: the first is approved, the second is not.
C16_Witness ==
    /\ ret.op = "approve"
    /\ Len(ret.ids) = 2
    /\ Len(sent) = 1
    /\ \E i \in DOMAIN archive, j \in DOMAIN archive :
          /\ archive[i].id = ret.ids[1]
          /\ archive[i].uploader = ret.user
          /\ archive[i].approved
          /\ archive[i].approved_by = ret.user
          /\ archive[j].id = ret.ids[2]
          /\ archive[j].uploader # ret.user
          /\ ~archive[j].approved

\* C17: approving an archive record that is already approved is a no-op: a
\* call of approve_payments by the uploader for one id whose record is
\* approved leaves approved_at and approved_by as they were and sends no
\* notification.
C17_SecondApprovalIsNoOp ==
    [][(/\ ret'.op = "approve"
        /\ Len(ret'.ids) = 1
        /\ \E i \in DOMAIN archive :
              /\ IsRecordOf(i, ret'.ids)
              /\ archive[i].uploader = ret'.user
              /\ archive[i].approved)
       => /\ archive' = archive
          /\ sent' = <<>>]_vars

\* C18: settlement only moves forward.  In every step, of whatever
\* operation, an active record that is paid is still paid afterwards if it
\* still exists, and an archive record that is approved is still there and
\* still approved.
C18_NoRegression ==
    [][/\ \A i \in DOMAIN items : items[i].paid =>
             \A j \in DOMAIN items' : items'[j].id = items[i].id => items'[j].paid
       /\ \A i \in DOMAIN archive : archive[i].approved =>
             /\ i \in DOMAIN archive'
             /\ archive'[i].id = archive[i].id
             /\ archive'[i].approved]_vars

\* An operation ran after a debt had been paid and its payment approved, and
\* the paid record is still active.
C18_Witness ==
    /\ \E i \in DOMAIN items : items[i].paid /\ items[i].paid_at < ret.now
    /\ \E i \in DOMAIN archive : archive[i].approved /\ archive[i].approved_at < ret.now

DeleteCall == ret.op \in {"delete", "batch_delete"}

\* C19: a delete call (single or batch) removes from the items sheet every
\* row whose purchase_id is requested and whose uploader is the caller, paid
\* or not, keeps every other row, in order, and leaves the archive alone; a
\* caller who uploaded none of the requested purchases removes nothing.
C19_DeleteOwnPurchases ==
    [][DeleteCall' =>
        /\ items' = SelectSeq(items, LAMBDA row :
                        ~(/\ row.purchase_id \in IndexSet(ret'.ids)
                          /\ row.uploader = ret'.user))
        /\ archive' = archive
        /\ ret'.err = ""]_vars

\* The uploader deleted a purchase of two rows, one of them paid (its copy
\* is in the archive) and one not, while a purchase of somebody else stays.
C19_Witness ==
    /\ ret.op = "delete"
    /\ ret.value = 1
    /\ Len(sent) = 1
    /\ Cardinality(sent[1].to) = 2
    /\ Len(archive) = 1
    /\ archive[1].purchase_id = ret.ids[1]
    /\ items # <<>>
    /\ \A i \in DOMAIN items : items[i].uploader # ret.user

\* The requested purchases have rows, and the user uploaded none of them.
NotTheUploader(user, ids) ==
    /\ \E i \in DOMAIN items : items[i].purchase_id \in IndexSet(ids)
    /\ \A i \in DOMAIN items :
          items[i].purchase_id \in IndexSet(ids) => items[i].uploader # user

\* C20 (as claimed): delete_expense_debts by a user who is not the uploader
\* of the purchase fails with a permission error.
C20_SinglePathRaises ==
    [][ret'.op = "delete" /\ NotTheUploader(ret'.user, ret'.ids)
          => ret'.err = "PermissionError"]_vars

\* C20 (amended): on the single path as on the batch path, a call by a user
\* who uploaded none of the requested purchases raises nothing, returns
\* (zero deleted purchases on the batch path), removes no row and notifies
\* nobody.
C20_BothPathsSilent ==
    [][DeleteCall' /\ NotTheUploader(ret'.user, ret'.ids)
          => /\ ret'.err = ""
             /\ ret'.value = 0
             /\ items' = items
             /\ archive' = archive
             /\ sent' = <<>>]_vars

\* delete_expense_debts was called for an existing purchase by a user who
\* did not upload it.
C20_Witness ==
    /\ ret.op = "delete"
    /\ ret.err = ""
    /\ \E i \in DOMAIN items :
          items[i].purchase_id = ret.ids[1] /\ items[i].uploader # ret.user

\* C21: a delete call (single or batch) leaves the archive sheet as it was:
\* it has the same number of records, and every record, those of the deleted
\* purchases included, keeps every field.
C21_DeleteKeepsArchive ==
    [][DeleteCall' =>
        /\ Len(archive') = Len(archive)
        /\ \A k \in DOMAIN archive : archive'[k] = archive[k]]_vars

\* A purchase was deleted whose paid row had been copied to the archive: the
\* copy is there and no active row of the purchase is left.
C21_Witness ==
    /\ DeleteCall
    /\ ret.value >= 1
    /\ \E k \in DOMAIN archive :
          /\ archive[k].purchase_id \in IndexSet(ret.ids)
          /\ archive[k].uploader = ret.user
          /\ archive[k].paid
    /\ \A i \in DOMAIN items : items[i].purchase_id \notin IndexSet(ret.ids)

\* What a load of each sheet returns in this state (load_paychecks_df,
\* compute_income_means, load_items_df, load_archive_df).
Loaded ==
    [paychecks |-> Fetch(cache.paychecks, paychecks),
     means |-> compute_income_means(MeansSource),
     items |-> Fetch(cache.items, items),
     archive |-> Fetch(cache.archive, archive)]

\* C22: a step of upsert_paychecks, of the splitter, of a delete, of
\* mark_debts_as_paid or of approve_payments that changes a sheet ends with
\* an empty cache, and in every state a load of the paychecks, of the income
\* means, of the items or of the archive returns what the sheet holds, never
\* an older value.
C22_WritesClearCache ==
    /\ [][<<paychecks, items, archive>>' # <<paychecks, items, archive>>
             => cache' = EmptyCache]_vars
    /\ [](Loaded = [paychecks |-> paychecks,
                    means |-> compute_income_means(paychecks),
                    items |-> items,
                    archive |-> archive])

\* The items sheet was loaded and cached by a call after rows were added and
\* one of them marked paid: the cached rows are the rows of the sheet.
C22_Witness ==
    /\ ret.op = "delete"
    /\ cache.items # <<>>
    /\ cache.items[1] = items
    /\ \E i \in DOMAIN items : items[i].paid
    /\ paychecks # <<>>

\* C23: a call of mark_debts_as_paid, approve_payments or a delete made
\* while the mail server is down raises nothing, attempts every one of its
\* notifications (none is delivered), and changes the items and archive
\* sheets exactly as the call does when the server is up: the own ids are
\* marked paid and archived, the own records approved, the own purchases
\* deleted.
C23_DeliveryFailureIsSwallowed ==
    [][(/\ ret'.now # ret.now
        /\ ~smtp
        /\ ret'.op \in {"mark_paid", "approve", "delete", "batch_delete"}) =>
        /\ ret'.err = ""
        /\ \A k \in DOMAIN sent' : ~sent'[k].delivered
        /\ ret'.op = "mark_paid" =>
              LET own == OwnIds(items, "debtor", ret'.user, ret'.ids)
              IN  /\ Len(sent') = Len(own)
                  /\ items' = [i \in DOMAIN items |->
                                  IF items[i].id \in IndexSet(own)
                                  THEN [items[i] EXCEPT !.paid = TRUE,
                                                        !.paid_at = ret'.now,
                                                        !.paid_by = ret'.user]
                                  ELSE items[i]]
                  /\ Len(archive') = Len(archive) + Len(own)
                  /\ \A k \in DOMAIN own : archive'[Len(archive) + k].id = own[k]
        /\ ret'.op = "approve" =>
              LET own == OwnIds(archive, "uploader", ret'.user, ret'.ids)
              IN  /\ Len(sent') = Len(own)
                  /\ items' = items
                  /\ archive' = [i \in DOMAIN archive |->
                                    IF IsRecordOf(i, own)
                                    THEN [archive[i] EXCEPT !.approved = TRUE,
                                                            !.approved_at = ret'.now,
                                                            !.approved_by = ret'.user]
                                    ELSE archive[i]]
        /\ DeleteCall' =>
              /\ Len(sent') = ret'.value
              /\ archive' = archive
              /\ items' = SelectSeq(items, LAMBDA row :
                              ~(/\ row.purchase_id \in IndexSet(ret'.ids)
                                /\ row.uploader = ret'.user))]_vars

\* A debtor marked a debt paid while the mail server was down: the record
\* is paid and archived, the notification to the uploader was attempted and
\* not delivered.
C23_Witness ==
    /\ ret.op = "mark_paid"
    /\ ret.err = ""
    /\ sent # <<>>
    /\ ~sent[1].delivered
    /\ \E i \in DOMAIN items :
          /\ items[i].id = ret.ids[1]
          /\ items[i].paid
          /\ items[i].paid_at = ret.now
    /\ \E k \in DOMAIN archive : archive[k].id = ret.ids[1] /\ archive[k].paid_at = ret.now

\* A step in which a call in flight returns.
Returns == ret'.now # ret.now /\ Len(pending') < Len(pending)

\* C24: whenever no call is in flight, every active record with paid = true
\* has a record of the same id, with paid = true, in the archive.
C24_PaidRecordsAreArchived ==
    pending = <<>> =>
        \A i \in DOMAIN items :
            items[i].paid =>
                \E k \in DOMAIN archive : archive[k].id = items[i].id /\ archive[k].paid

\* C26: a call of mark_debts_as_paid that loaded the sheet while the debt
\* of the acting user was there returns without raising and appends one
\* archive row for the id, whatever other calls wrote between its load and
\* its writes: a second call in flight for the same debt adds a second
\* archive row for it.
C26_BothConcurrentCallsArchive ==
    [][(/\ Returns
        /\ ret'.op = "mark_paid"
        /\ OwnIds(ret'.read, "debtor", ret'.user, ret'.ids) # <<>>) =>
        /\ ret'.err = ""
        /\ Len(archive') = Len(archive) + 1
        /\ archive'[Len(archive')].id = ret'.ids[1]
        /\ archive'[Len(archive')].paid_by = ret'.user
        /\ Len(sent') = 1]_vars

\* Two calls for the same debt were in flight together: the one that
\* returned last had loaded the record unpaid, and the archive holds two
\* records for the id, one of each call.
C26_Witness ==
    /\ ret.op = "mark_paid"
    /\ "read" \in DOMAIN ret
    /\ ret.err = ""
    /\ \E i \in DOMAIN ret.read :
          /\ ret.read[i].id = ret.ids[1]
          /\ ret.read[i].debtor = ret.user
          /\ ~ret.read[i].paid
    /\ \E j, k \in DOMAIN archive :
          /\ j < k
          /\ archive[j].id = ret.ids[1]
          /\ archive[k].id = ret.ids[1]
          /\ archive[j].paid_by = ret.user
          /\ archive[k].paid_by = ret.user
          /\ archive[j].paid_at < ret.read_at
          /\ archive[k].paid_at = ret.read_at

\* C27: a call of mark_debts_as_paid or approve_payments that returns has
\* changed no active record and no archive record other than those whose id
\* it was asked for, whatever ran between its load and its writes.
C27_WritesOnlyRequestedRecords ==
    [][(Returns /\ ret'.op \in {"mark_paid", "approve"}) =>
        /\ \A i \in DOMAIN items' :
              (i \notin DOMAIN items \/ items'[i] # items[i])
                  => items'[i].id \in IndexSet(ret'.ids)
        /\ \A k \in DOMAIN archive :
              archive'[k] # archive[k] => archive[k].id \in IndexSet(ret'.ids)]_vars

\* C29: in every state, calls in flight or not, every archive record has
\* paid = true and paid_by equal to its debtor, and every archive record
\* with approved = true has approved_by equal to its uploader.
C29_ArchiveRecordsAreSettled ==
    \A k \in DOMAIN archive :
        /\ archive[k].paid = TRUE
        /\ archive[k].paid_by = archive[k].debtor
        /\ archive[k].approved => archive[k].approved_by = archive[k].uploader

\* A debtor marked a debt paid and its uploader approved the payment.
C29_Witness ==
    \E k \in DOMAIN archive :
        /\ archive[k].approved
        /\ archive[k].approved_by # archive[k].paid_by
        /\ archive[k].approved_at > archive[k].paid_at
        /\ ret.op = "approve"

\* C30: after approve_payments no archive record whose id was requested and
\* whose uploader is the acting user is left with approved = false, however
\* many records the archive holds for the id.
C30_NoneLeftPending ==
    [][ret'.op = "approve" =>
        \A k \in DOMAIN archive' :
            (/\ archive'[k].id \in IndexSet(ret'.ids)
             /\ archive'[k].uploader = ret'.user) => archive'[k].approved]_vars

\* C25: the paychecks sheet never holds two rows with the same username; a
\* save for a username that has a row leaves the number of rows as it was,
\* writes the three amounts into that row and changes no other row, and a
\* save for a new username appends one row and changes no other.
C25_OneRowPerUsername ==
    /\ [](\A i, j \in DOMAIN paychecks :
             paychecks[i].username = paychecks[j].username => i = j)
    /\ [][ret'.op = "upsert" =>
            LET written == [username |-> ret'.user, pay1 |-> <<ret'.pays[1]>>,
                            pay2 |-> <<ret'.pays[2]>>, pay3 |-> <<ret'.pays[3]>>]
            IN  IF \E i \in DOMAIN paychecks : paychecks[i].username = ret'.user
                THEN paychecks' = [i \in DOMAIN paychecks |->
                                      IF paychecks[i].username = ret'.user
                                      THEN written ELSE paychecks[i]]
                ELSE paychecks' = Append(paychecks, written)]_vars

\* The user of the first of three rows saved new amounts: the row is still
\* the first, with the amounts of the form, and the others are as they were.
C25_Witness ==
    /\ ret.op = "upsert"
    /\ Len(paychecks) = 3
    /\ paychecks[1].username = ret.user
    /\ ret.pays = <<1000, 3000, 5000>>
    /\ paychecks[1].pay3 = <<5000>>
    /\ paychecks[2].pay3 = <<1000>>

\* The 0-indexed sheet row index (the header is index 0) lies in the range.
Covers(req, index) == req.startIndex <= index /\ index < req.endIndex

\* C28: for the rows a batch delete selects, the ranges built from the
\* descending row numbers are such that each selected row lies in exactly
\* one range and no other row in any, each range lies wholly above the
\* ranges emitted before it (so deleting those moves none of its rows), and
\* applying them in the emitted order leaves exactly the rows that were not
\* selected, in order.
C28_RangesRemoveTheSelection ==
    [][ret'.op = "batch_delete" =>
        LET selected == {i \in DOMAIN items :
                            /\ items[i].purchase_id \in IndexSet(ret'.ids)
                            /\ items[i].uploader = ret'.user}
            rows == rows_to_delete(MatchingRows(items, ret'.user, ret'.ids))
            reqs == delete_requests(rows, 1)
        IN  /\ IndexSet(rows) = {i + 1 : i \in selected}
            /\ \A i \in selected :
                  Cardinality({k \in DOMAIN reqs : Covers(reqs[k], i)}) = 1
            /\ \A i \in DOMAIN items \ selected :
                  \A k \in DOMAIN reqs : ~Covers(reqs[k], i)
            /\ \A k, l \in DOMAIN reqs :
                  k < l => reqs[l].endIndex <= reqs[k].startIndex
            /\ items' = SelectSeq(items, LAMBDA row :
                            ~(/\ row.purchase_id \in IndexSet(ret'.ids)
                              /\ row.uploader = ret'.user))]_vars

\* Rows 1, 2, 4 and 6 of six were deleted, in three ranges: rows 3 and 5
\* are what is left.
C28_Witness ==
    /\ ret.op = "batch_delete"
    /\ IndexSet(ret.ids) = {1, 3, 7, 11}
    /\ ret.now = 7
    /\ ret.value = 4
    /\ Len(items) = 2
    /\ items[1].id = 6
    /\ items[2].id = 10

====
